---------------------------- MODULE Spec2Model ----------------------------
(***************************************************************************)
(* Narration audio pipeline of training-slide-automation                   *)
(* (src/src/narration/narration-generator.ts, NarrationGeneratorAgent).    *)
(*                                                                         *)
(* Text is a sequence of characters (one-character strings; a character    *)
(* outside ASCII is written by its code point, "U+3002").  A file path or   *)
(* an error message is a sequence of tokens: the literal pieces the code    *)
(* searches for ('.mp3', '503', ...) are tokens of their own, so that       *)
(* String.replace and String.includes act on them as they do on the text.   *)
(* The output directory is the set of paths that exist in it.               *)
(***************************************************************************)
EXTENDS Integers, Sequences, FiniteSets, TLC

(***************************************************************************)
(* Bounds of the model and constants of the program                         *)
(***************************************************************************)
\* longest script explored (number of sections)
MaxSections == 3
\* longest text given to splitTextIntoChunks on its own
MaxTextLen == 4
\* largest maxChunkSize given to splitTextIntoChunks on its own
MaxChunk == 3
\* longest text given to applyDictionary on its own
MaxDictTextLen == 3

\* narration-generator.ts:427  const maxRetries = 3
maxRetries == 3
\* narration-generator.ts:461  Math.pow(2, retryCount) * 1000
BackoffBaseMs == 1000
\* narration-generator.ts:510  splitTextIntoChunks(processedText, 1000)
GeminiChunkSize == 1000
\* narration-generator.ts:72   usePaidTier ? 1000 : 35000
PaidRateLimitMs == 1000
FreeRateLimitMs == 35000
\* narration-generator.ts:333  .substring(0, 50)
SafeTitleMax == 50

(***************************************************************************)
(* Sequences                                                                *)
(***************************************************************************)
Range(s) == {s[k] : k \in DOMAIN s}

SetMin(S) == CHOOSE x \in S : \A y \in S : x <= y

SetMax(S) == CHOOSE x \in S : \A y \in S : y <= x

Rep(c, n) == [k \in 1..n |-> c]

\* variant: the item goes to the front of the array
unshift(array, item) == <<item>> \o array

\* Array.prototype.push (lines 390 and 536)
push(array, item) == Append(array, item)

\* String.prototype.includes on a tokenised message
includes(msg, token) == \E k \in DOMAIN msg : msg[k] = token

\* String.prototype.replace(pattern, replacement) with a string pattern:
\* only the first occurrence is replaced
replace(s, pattern, replacement) ==
    LET hits == {k \in DOMAIN s : s[k] = pattern}
    IN  IF hits = {} THEN s
        ELSE LET k == SetMin(hits)
             IN  SubSeq(s, 1, k - 1) \o replacement \o SubSeq(s, k + 1, Len(s))

(***************************************************************************)
(* Characters                                                               *)
(***************************************************************************)
\* the class [。！？\n] of the sentence split (line 180)
Terminators == {"U+3002", "U+FF01", "U+FF1F", "\n"}

\* what String.prototype.trim and the regex class \s remove
WhiteSpace == {" ", "\n", "\t", "U+3000"}

\* case folding of the regex flag 'i'
Fold(c) ==
    CASE c = "a" -> "A"
      [] c = "b" -> "B"
      [] c = "c" -> "C"
      [] c = "h" -> "H"
      [] c = "i" -> "I"
      [] c = "g" -> "G"
      [] c = "p" -> "P"
      [] c = "t" -> "T"
      [] c = "x" -> "X"
      [] OTHER -> c

\* String.prototype.trim
trim(s) ==
    IF \A k \in DOMAIN s : s[k] \in WhiteSpace THEN <<>>
    ELSE LET first == CHOOSE k \in DOMAIN s :
                          s[k] \notin WhiteSpace /\ \A j \in 1..(k - 1) : s[j] \in WhiteSpace
             last  == CHOOSE k \in DOMAIN s :
                          s[k] \notin WhiteSpace /\ \A j \in (k + 1)..Len(s) : s[j] \in WhiteSpace
         IN  SubSeq(s, first, last)

(***************************************************************************)
(* applyDictionary (lines 118-137)                                          *)
(* A dictionary is NullDictionary or the sequence of its entries            *)
(* <<term, reading>> in insertion order (Object.entries).                   *)
(***************************************************************************)
NullDictionary == "null"

\* variant: the entries are applied in insertion order
insertionOrder(entries) == entries

\* Array.prototype.sort((a, b) => b[0].length - a[0].length): stable,
\* longest term first
RECURSIVE sortedEntries(_)
sortedEntries(entries) ==
    IF entries = <<>> THEN <<>>
    ELSE LET longest == SetMax({Len(entries[k][1]) : k \in DOMAIN entries})
             first   == SetMin({k \in DOMAIN entries : Len(entries[k][1]) = longest})
         IN  <<entries[first]>> \o
             sortedEntries(SubSeq(entries, 1, first - 1) \o
                           SubSeq(entries, first + 1, Len(entries)))

\* the characters line 130 puts a backslash before
RegExpSpecial == {".", "*", "+", "?", "^", "$", "{", "}", "(", ")", "|", "[", "]", "\\"}

\* line 130: original.replace(/[.*+?^${}()|[\]\\]/g, '\\$&'), as the atoms of
\* the pattern: a character, escaped or not
escapeRegExp(original) ==
    [k \in DOMAIN original |->
        [char |-> original[k], escaped |-> original[k] \in RegExpSpecial]]

\* one atom of new RegExp(escaped, 'gi') against one character: an escaped
\* character stands for itself, a bare '.' for any character but a line
\* terminator, any other character for itself in either case (of the special
\* characters only '.' occurs in the terms explored)
atomMatches(atom, c) ==
    IF atom.escaped THEN c = atom.char
    ELSE IF atom.char = "." THEN c # "\n"
    ELSE Fold(c) = Fold(atom.char)

matchAt(text, term, p) ==
    LET atoms == escapeRegExp(term)
    IN  /\ p + Len(atoms) - 1 <= Len(text)
        /\ \A j \in DOMAIN atoms : atomMatches(atoms[j], text[p + j - 1])

\* the replacement string of String.prototype.replace for the match of n
\* characters at p: $$ is a dollar sign, $& the match, $` the text before
\* it and $' the text after it; without groups any other $ stands for itself
RECURSIVE expandReplacement(_, _, _, _)
expandReplacement(replacement, text, p, n) ==
    IF replacement = <<>> THEN <<>>
    ELSE IF replacement[1] = "$" /\ Len(replacement) > 1
                /\ replacement[2] \in {"$", "&", "`", "'"}
         THEN (CASE replacement[2] = "$" -> <<"$">>
                 [] replacement[2] = "&" -> SubSeq(text, p, p + n - 1)
                 [] replacement[2] = "`" -> SubSeq(text, 1, p - 1)
                 [] replacement[2] = "'" -> SubSeq(text, p + n, Len(text)))
              \o expandReplacement(SubSeq(replacement, 3, Len(replacement)), text, p, n)
         ELSE <<replacement[1]>> \o expandReplacement(Tail(replacement), text, p, n)

\* text.replace(new RegExp(escaped, 'gi'), reading) from position start on:
\* the leftmost matches, not overlapping; after an empty match the search
\* moves on by one character
RECURSIVE replaceFrom(_, _, _, _)
replaceFrom(text, term, reading, start) ==
    LET hits == {p \in start..(Len(text) - Len(term) + 1) : matchAt(text, term, p)}
    IN  IF hits = {} THEN SubSeq(text, start, Len(text))
        ELSE LET p == SetMin(hits)
                 n == Len(term)
             IN  SubSeq(text, start, p - 1)
                 \o expandReplacement(reading, text, p, n)
                 \o (IF n > 0 THEN replaceFrom(text, term, reading, p + n)
                     ELSE IF p > Len(text) THEN <<>>
                     ELSE <<text[p]>> \o replaceFrom(text, term, reading, p + 1))

RECURSIVE applyEntries(_, _)
applyEntries(text, entries) ==
    IF entries = <<>> THEN text
    ELSE applyEntries(replaceFrom(text, entries[1][1], entries[1][2], 1), Tail(entries))

applyDictionary(dict, text) ==
    IF dict = NullDictionary THEN text
    ELSE applyEntries(text, sortedEntries(dict))

(***************************************************************************)
(* splitTextIntoChunks (lines 173-204)                                      *)
(***************************************************************************)
\* text.split(/(?<=[。！？\n])/): a piece ends after each terminator
splitSentences(text) ==
    LET ends == {k \in DOMAIN text : text[k] \in Terminators \/ k = Len(text)}
        nth(j) == CHOOSE e \in ends : Cardinality({x \in ends : x <= e}) = j
    IN  IF text = <<>> THEN << <<>> >>
        ELSE [j \in 1..Cardinality(ends) |->
                 SubSeq(text, IF j = 1 THEN 1 ELSE nth(j - 1) + 1, nth(j))]

\* variant: the last character of a chunk is cut off
pushChunkClipped(chunks, currentChunk) ==
    IF currentChunk # <<>>
    THEN Append(chunks, SubSeq(trim(currentChunk), 1, Len(trim(currentChunk)) - 1))
    ELSE chunks

\* lines 190-192 and 199-201
pushChunk(chunks, currentChunk) ==
    IF currentChunk # <<>> THEN Append(chunks, trim(currentChunk)) ELSE chunks

\* variant: a chunk may grow one character beyond the maximum
RECURSIVE packSentencesLoose(_, _, _, _, _)
packSentencesLoose(sentences, k, currentChunk, chunks, maxChunkSize) ==
    IF k > Len(sentences) THEN pushChunk(chunks, currentChunk)
    ELSE IF Len(currentChunk \o sentences[k]) <= maxChunkSize + 1
         THEN packSentencesLoose(sentences, k + 1, currentChunk \o sentences[k],
                                 chunks, maxChunkSize)
         ELSE packSentencesLoose(sentences, k + 1, sentences[k],
                                 pushChunk(chunks, currentChunk), maxChunkSize)

\* the for loop of lines 184-196 from sentence k on, and lines 199-201
RECURSIVE packSentences(_, _, _, _, _)
packSentences(sentences, k, currentChunk, chunks, maxChunkSize) ==
    IF k > Len(sentences) THEN pushChunk(chunks, currentChunk)
    ELSE IF Len(currentChunk \o sentences[k]) <= maxChunkSize
         THEN packSentences(sentences, k + 1, currentChunk \o sentences[k],
                            chunks, maxChunkSize)
         ELSE packSentences(sentences, k + 1, sentences[k],
                            pushChunk(chunks, currentChunk), maxChunkSize)

\* variant: a short text is trimmed as the chunks of a long one are
splitTextTrimmed(text, maxChunkSize) ==
    IF Len(text) <= maxChunkSize THEN <<trim(text)>>
    ELSE SelectSeq(packSentences(splitSentences(text), 1, <<>>, <<>>, maxChunkSize),
                   LAMBDA chunk : Len(chunk) > 0)

splitTextIntoChunks(text, maxChunkSize) ==
    IF Len(text) <= maxChunkSize THEN <<text>>
    ELSE SelectSeq(packSentences(splitSentences(text), 1, <<>>, <<>>, maxChunkSize),
                   LAMBDA chunk : Len(chunk) > 0)

(***************************************************************************)
(* Inputs explored                                                          *)
(***************************************************************************)
Kuten == "U+3002"

\* a sentence of n characters, its terminator included
Sentence(n) == Rep("x", n - 1) \o <<Kuten>>

TextIds == {"short", "edge", "long3", "blank"}

\* the texts a section's title and narration are drawn from
FieldIds == {"empty", "space", "title", "short", "long3"}

Texts ==
  [id \in TextIds \cup FieldIds |->
    CASE id = "empty" -> <<>>
      [] id = "space" -> <<" ", "\n">>
      [] id = "title" -> <<"A", "I", " ", "1", ".">>
      [] id = "short" -> <<"a", "i", Kuten>>
      \* 1000 characters, 1002 once "AI" is read as four characters
      [] id = "edge"  -> <<"A", "I">> \o Sentence(498) \o Sentence(500)
      \* the 2400 characters of the specification's end-to-end example
      [] id = "long3" -> Sentence(800) \o Sentence(800) \o Sentence(800)
      \* more than the maximum, white space only
      [] id = "blank" -> Rep(" ", 1001)]

TextOf(id) == Texts[id]

\* what loadDictionary leaves in this.dictionary (lines 104-113): the parsed
\* file, or null when it cannot be read
Dictionaries ==
    { NullDictionary,
      << << <<"A", "I">>, <<"e", "-", "a", "i">> >> >> }

\* the sequences over S of at most n elements
SeqsUpTo(S, n) == UNION {[1..k -> S] : k \in 0..n}

\* the texts splitTextIntoChunks is given on its own
SplitAlphabet == {"x", " ", Kuten, "\n"}

SplitTexts == SeqsUpTo(SplitAlphabet, MaxTextLen)

\* the texts, terms and readings applyDictionary is given on its own
DictAlphabet == {"a", "A", "b", "."}

DictTexts == SeqsUpTo(DictAlphabet, MaxDictTextLen)

Terms == { <<"a">>, <<"b">>, <<"A", "b">>, <<".">>, <<"a", ".">> }

Readings == { <<"x">>, <<"b", "a">>, <<"$", "&">> }

\* this.dictionary.replacements with one or two entries (the keys of an
\* object are distinct)
Replacements ==
    { << <<t, r>> >> : t \in Terms, r \in Readings }
    \cup { << <<t[1], r[1]>>, <<t[2], r[2]>> >> :
              t \in {u \in Terms \X Terms : u[1] # u[2]}, r \in Readings \X Readings }

\* the filename argument of generateFromText
FileNames ==
    { <<"narration", ".mp3">>, <<"a", ".mp3", "b", ".mp3">>, <<"plain">> }

\* the sections a script is made of (Section of the script schema);
\* generateSectionAudio sends a text of any length in one request, so the
\* narrated section explored is one longer than the chunk size
SectionPool ==
    { [type |-> "content",        title |-> "title", narration |-> "long3"],
      [type |-> "content",        title |-> "empty", narration |-> "space"],
      [type |-> "sectionDivider", title |-> "title", narration |-> "short"],
      [type |-> "title",          title |-> "title", narration |-> "short"] }

Scripts == UNION {[1..n -> SectionPool] : n \in 1..MaxSections}

\* error.message of a rejected synthesis request; <<>> is a rejection without
\* a message (error?.message undefined or empty)
ServiceErrors ==
    { <<"got status: ", "503", " Service Unavailable">>,
      <<"INTERNAL">>,
      <<"500", " Internal Server Error">>,
      <<"429", " RESOURCE_EXHAUSTED">>,
      <<>> }

\* line 448
NoAudioData == <<"No audio data returned from Gemini API">>

\* what ai.models.generateContent can answer
Responses ==
    {[kind |-> "audio", message |-> <<>>], [kind |-> "noaudio", message |-> NoAudioData]}
    \cup {[kind |-> "error", message |-> m] : m \in ServiceErrors}

(***************************************************************************)
(* generateAudioChunk: classification, backoff, the error thrown            *)
(***************************************************************************)
\* variant: every error is taken for a transient one
allRetryable(message) == TRUE

\* lines 455-458
isRetryableError(message) ==
    \/ includes(message, "INTERNAL")
    \/ includes(message, "500")
    \/ includes(message, "503")

\* variant: the retry limit is compared with <= instead of <
shouldRetryInclusive(message, retryCount) ==
    isRetryableError(message) /\ retryCount <= maxRetries

\* line 460
shouldRetry(message, retryCount) ==
    isRetryableError(message) /\ retryCount < maxRetries

\* variant: the backoff grows linearly
waitTimeLinear(retryCount) == (retryCount + 1) * BackoffBaseMs

\* line 461
waitTime(retryCount) == (2 ^ retryCount) * BackoffBaseMs

\* variant: the underlying message is dropped
apiErrorGeneric(message) ==
    <<"Gemini API error: ", "Unknown error", ". Please try again later.">>

\* line 469
apiError(message) ==
    <<"Gemini API error: ">> \o
    (IF message # <<>> THEN message ELSE <<"Unknown error">>) \o
    <<". Please try again later.">>

(***************************************************************************)
(* Paths                                                                    *)
(***************************************************************************)
Digits == <<"0", "1", "2", "3", "4", "5", "6", "7", "8", "9">>

\* String(n) for 0 <= n <= 99
ToStr(n) == IF n < 10 THEN Digits[n + 1] ELSE Digits[(n \div 10) + 1] \o Digits[(n % 10) + 1]

\* String(n).padStart(2, '0')
padStart2(n) == IF n < 10 THEN "0" \o Digits[n + 1] ELSE ToStr(n)

\* line 246
tempPcmPathOf(outputPath) == replace(outputPath, ".mp3", <<"_temp", ".pcm">>)

\* lines 252-254 and 277
rawMp3PathOf(outputPath) == replace(outputPath, ".mp3", <<"_raw", ".mp3">>)

\* line 211
fileListPathOf(outputPath) == replace(outputPath, ".mp3", <<"_filelist", ".txt">>)

\* lines 526-527
tempFilepathOf(filename, i) ==
    replace(filename, ".mp3", <<>>) \o <<"_chunk_", ToStr(i), ".mp3">>

\* line 533
normalizedPathOf(tempFilepath) ==
    replace(tempFilepath, ".mp3", <<"_normalized", ".mp3">>)

\* the characters the title filter of line 331 keeps
TitleChars == {"A", "I", "a", "i", "x", "0", "1", "2"} \cup WhiteSpace

\* .replace(/\s+/g, '_'): every run of white space becomes one underscore
RECURSIVE collapseSpace(_)
collapseSpace(s) ==
    IF s = <<>> THEN <<>>
    ELSE IF s[1] \in WhiteSpace
         THEN IF Len(s) > 1 /\ s[2] \in WhiteSpace THEN collapseSpace(Tail(s))
              ELSE <<"_">> \o collapseSpace(Tail(s))
         ELSE <<s[1]>> \o collapseSpace(Tail(s))

\* lines 330-333
safeTitle(sectionTitle) ==
    LET kept == collapseSpace(SelectSeq(sectionTitle, LAMBDA c : c \in TitleChars))
    IN  SubSeq(kept, 1, IF Len(kept) < SafeTitleMax THEN Len(kept) ELSE SafeTitleMax)

\* lines 335-336
sectionFilename(sectionTitle, sectionIndex) ==
    <<"section_", padStart2(sectionIndex + 1), "_">> \o safeTitle(sectionTitle) \o <<".mp3">>

\* lines 142-166 for the fields a section of the pool has
extractNarrationText(section) ==
    LET title     == TextOf(section.title)
        narration == TextOf(section.narration)
    IN  IF title # <<>> /\ narration # <<>> THEN title \o <<"\n", "\n">> \o narration
        ELSE title \o narration

(***************************************************************************)
(* The output directory                                                     *)
(***************************************************************************)
\* `rm "p"` run through exec: removes p, or exits non-zero when p is missing
rmOk(dir, p) == p \in dir

\* variant: only the first path is removed
rmFirstOnly(dir, paths) ==
    IF paths = <<>> THEN [dir |-> dir, ok |-> TRUE]
    ELSE [dir |-> dir \ {paths[1]}, ok |-> rmOk(dir, paths[1])]

\* rm of each path in turn, up to the first that fails (lines 223-226)
RECURSIVE rmEach(_, _)
rmEach(dir, paths) ==
    IF paths = <<>> THEN [dir |-> dir, ok |-> TRUE]
    ELSE IF rmOk(dir, paths[1]) THEN rmEach(dir \ {paths[1]}, Tail(paths))
         ELSE [dir |-> dir, ok |-> FALSE]

\* the cleanup of pcmToMp3's catch block (lines 274-280): a failed rm leaves
\* the try block, and its empty catch swallows the failure
pcmCleanup(dir, outputPath, denoise) ==
    IF ~rmOk(dir, tempPcmPathOf(outputPath)) THEN dir
    ELSE LET afterPcm == dir \ {tempPcmPathOf(outputPath)}
         IN  IF denoise THEN afterPcm \ {rawMp3PathOf(outputPath)} ELSE afterPcm

\* variant: the catch block throws again without removing the manifest
concatCleanupSkipped(dir, outputPath) == dir

\* the cleanup of concatenateAudioFiles' catch block (lines 229-231)
concatCleanup(dir, outputPath) == dir \ {fileListPathOf(outputPath)}

\* the cleanup of generateFromText's catch block (lines 558-562)
textCleanup(dir, temps) == dir \ Range(temps)

(***************************************************************************)
(* State                                                                    *)
(***************************************************************************)
VARIABLES
    mode,           \* "text": generateFromText(text, filename); "script": generate(script)
    rateLimitMs,    \* this.rateLimitMs
    enableDenoise,  \* this.enableDenoise
    text,           \* argument of generateFromText (an id of TextOf)
    filename,       \* argument of generateFromText
    script,         \* script.sections, argument of generate
    dictionary,     \* this.dictionary
    pc,             \* the statement the run is at
    outcome,        \* "running", "resolved" or "rejected": the promise of the run
    error,          \* the message of the error being thrown
    i,              \* loop index of generateFromText / generate
    chunks,         \* generateFromText: the length of each chunk
    tempFiles,      \* generateFromText: tempFiles
    dir,            \* the paths that exist in the output directory
    retryCount,     \* generateAudioChunk: retryCount of the current frame
    callReqs,       \* generateAudioChunk: requests sent since the call began
    attempts,       \* generateAudioChunk: the error message of each failed attempt
    sleeps,         \* generateAudioChunk: the backoff slept before each retry
    payload,        \* the audio returned: the number of the request that carried it
    gacStatus,      \* generateAudioChunk: "idle", "running", "returned", "threw"
    waited,         \* milliseconds slept in timers since the last request
    reqCount,       \* requests sent to the synthesis service
    lastGap,        \* milliseconds slept between the last request and the one before
    lastRetry,      \* retryCount of the last request
    outputPath,     \* pcmToMp3: outputPath
    pcmStatus,      \* pcmToMp3: "idle", "running", "returned", "threw"
    sectionReqs,    \* generate: requests sent for the current section
    sectionResult,  \* generate: what generateSectionAudio returned
    sectionLog,     \* generate: per processed section, its index and whether it succeeded
    results,        \* generate: results
    successCount,   \* generate: successCount
    failureCount,   \* generate: failureCount
    catStatus,      \* concatenateAudioFiles: "idle", "running", "returned", "threw"
    fileList,       \* concatenateAudioFiles: the files the manifest lists, in order
    unitPc,         \* a function called on its own: "none", "call", "loop", "done"
    unitArgs,       \* its arguments
    processedText,  \* applyDictionary: processedText
    pending,        \* applyDictionary: the sorted entries the loop has not applied yet
    passes,         \* applyDictionary: per entry applied, the text before and after it
    returned,       \* what the function returned
    analysis,       \* denoise: analysis, what detectNoise returned
    actualLevel,    \* denoise: actualLevel
    noiseType,      \* denoise: noiseType
    filter,         \* denoise: filter
    output,         \* denoise: what ffmpeg or copyFileSync wrote to outputPath
    dictFile,       \* web server: the replacements stored in dictionary.json
    reqPc,          \* web server: per request, the await its handler is at
    reqLocal,       \* web server: per request, the dictionary of its handler
    reqAnswer       \* web server: per request, the response sent

inputs == <<mode, rateLimitMs, enableDenoise, text, filename, script>>
client == <<retryCount, callReqs, attempts, sleeps, gacStatus>>
clock  == <<waited, reqCount, lastGap, lastRetry>>
loop   == <<i, chunks, tempFiles>>
fsys   == <<dir>>
pcm    == <<outputPath, pcmStatus>>
tally  == <<sectionReqs, sectionResult, sectionLog, results, successCount, failureCount>>
concat == <<catStatus, fileList>>
denoiser == <<analysis, actualLevel, noiseType, filter, output>>
server == <<dictFile, reqPc, reqLocal, reqAnswer>>
unit   == <<unitPc, unitArgs, processedText, pending, passes, returned, denoiser, server>>

vars == <<inputs, dictionary, pc, outcome, error, loop, fsys, client, payload,
          clock, pcm, tally, concat, unit>>

NoError == <<"none">>
NoResult == [filename |-> <<>>, success |-> FALSE]
NoArgs == [text |-> <<>>]
NoAnalysis == [type |-> "none", level |-> 0, recommendedLevel |-> "none"]

\* denoise is not running
DenoiserIdle ==
    /\ analysis = NoAnalysis
    /\ actualLevel = "unset"
    /\ noiseType = "unset"
    /\ filter = <<>>
    /\ output = "absent"

\* the web server handles no request
ServerIdle ==
    /\ dictFile = {}
    /\ reqPc = <<>>
    /\ reqLocal = <<>>
    /\ reqAnswer = <<>>

\* no function is being called on its own
UnitIdle ==
    /\ unitPc = "none"
    /\ unitArgs = NoArgs
    /\ processedText = <<>>
    /\ pending = <<>>
    /\ passes = <<>>
    /\ returned = <<>>
    /\ DenoiserIdle
    /\ ServerIdle

\* the constructor (lines 64-79) and setDenoiseOptions (lines 93-99), then the
\* call of generateFromText or generate
Init ==
    /\ mode \in {"text", "script"}
    /\ rateLimitMs \in {PaidRateLimitMs, FreeRateLimitMs}
    /\ enableDenoise \in BOOLEAN
    /\ IF mode = "text"
       THEN text \in TextIds /\ filename \in FileNames /\ script = <<>>
       ELSE text = "empty" /\ filename = <<>> /\ script \in Scripts
    /\ dictionary = NullDictionary
    /\ pc = IF mode = "text" THEN "gft_start" ELSE "gen_start"
    /\ outcome = "running"
    /\ error = NoError
    /\ i = 0 /\ chunks = <<>> /\ tempFiles = <<>>
    /\ dir = {}
    /\ retryCount = 0 /\ callReqs = 0 /\ attempts = <<>> /\ sleeps = <<>> /\ gacStatus = "idle"
    /\ payload = 0
    /\ waited = 0 /\ reqCount = 0 /\ lastGap = 0 /\ lastRetry = 0
    /\ outputPath = <<>> /\ pcmStatus = "idle"
    /\ sectionReqs = 0 /\ sectionResult = NoResult /\ sectionLog = <<>>
    /\ results = <<>> /\ successCount = 0 /\ failureCount = 0
    /\ catStatus = "idle" /\ fileList = <<>>
    /\ UnitIdle

\* control reaches the catch block of the caller: generateFromText's
\* (line 556) or generateSectionAudio's (line 346)
catchOf(m) == IF m = "text" THEN "gft_catch" ELSE "gsa_catch"

\* one request goes out: ai.models.generateContent (lines 305, 430)
Send(retry) ==
    /\ reqCount' = reqCount + 1
    /\ lastGap' = waited
    /\ waited' = 0
    /\ lastRetry' = retry

\* setTimeout(resolve, ms)
Sleep(ms) ==
    /\ waited' = waited + ms
    /\ UNCHANGED <<reqCount, lastGap, lastRetry>>

(***************************************************************************)
(* generateAudioChunk (lines 426-471)                                       *)
(***************************************************************************)
\* lines 430-451 and the catch block's decision (lines 453-470)
GacRequest ==
    /\ pc = "gac_request"
    /\ \E r \in Responses :
         /\ Send(retryCount)
         /\ callReqs' = callReqs + 1
         /\ IF r.kind = "audio"
            THEN /\ payload' = reqCount + 1
                 /\ gacStatus' = "returned"
                 /\ outputPath' = tempFilepathOf(filename, i)
                 /\ pcmStatus' = "running"
                 /\ pc' = "pcm_write"
                 /\ UNCHANGED <<attempts, error>>
            ELSE /\ attempts' = Append(attempts, r.message)
                 /\ UNCHANGED <<payload, pcm>>
                 /\ IF shouldRetry(r.message, retryCount)
                    THEN /\ pc' = "gac_sleep"
                         /\ UNCHANGED <<gacStatus, error>>
                    ELSE /\ gacStatus' = "threw"
                         /\ error' = apiError(r.message)
                         /\ pc' = "gft_catch"
    /\ UNCHANGED <<unit, concat, inputs, dictionary, outcome, loop, fsys, retryCount, sleeps, tally>>

\* lines 461-464
GacSleep ==
    /\ pc = "gac_sleep"
    /\ Sleep(waitTime(retryCount))
    /\ sleeps' = Append(sleeps, waitTime(retryCount))
    /\ retryCount' = retryCount + 1
    /\ pc' = "gac_request"
    /\ UNCHANGED <<unit, concat, inputs, dictionary, outcome, error, loop, fsys, callReqs, attempts,
                   gacStatus, payload, pcm, tally>>

(***************************************************************************)
(* pcmToMp3 (lines 241-283)                                                 *)
(***************************************************************************)
\* lines 243-247: writeFile of the temporary PCM, outside the try block
PcmWrite ==
    /\ pc = "pcm_write"
    /\ \E ok \in BOOLEAN :
         IF ok
         THEN /\ dir' = dir \cup {tempPcmPathOf(outputPath)}
              /\ pc' = "pcm_transcode"
              /\ UNCHANGED <<error, pcmStatus>>
         ELSE /\ pcmStatus' = "threw"
              /\ error' = <<"writeFile failed">>
              /\ pc' = catchOf(mode)
              /\ UNCHANGED fsys
    /\ UNCHANGED <<unit, concat, inputs, dictionary, outcome, loop, client, payload, clock,
                   outputPath, tally>>

\* lines 252-258: ffmpeg from the PCM to tempMp3Path; a failing ffmpeg may
\* leave its output file behind
PcmTranscode ==
    /\ pc = "pcm_transcode"
    /\ LET tempMp3Path == IF enableDenoise THEN rawMp3PathOf(outputPath) ELSE outputPath
       IN  \E ok \in BOOLEAN, partial \in BOOLEAN :
             /\ ok => partial
             /\ dir' = IF partial THEN dir \cup {tempMp3Path} ELSE dir
             /\ pc' = IF ok THEN "pcm_rm" ELSE "pcm_catch"
             /\ error' = IF ok THEN error ELSE <<"ffmpeg failed">>
    /\ UNCHANGED <<unit, concat, inputs, dictionary, outcome, loop, client, payload, clock, pcm, tally>>

\* control leaves pcmToMp3 normally: back in generateFromText (line 533) or
\* in generateSectionAudio (lines 342-344)
pcmReturn ==
    /\ pcmStatus' = "returned"
    /\ IF mode = "text"
       THEN pc' = "gft_normalize" /\ UNCHANGED sectionResult
       ELSE pc' = "gen_record" /\ sectionResult' = [filename |-> outputPath, success |-> TRUE]

\* line 261: rm of the temporary PCM
PcmRm ==
    /\ pc = "pcm_rm"
    /\ IF rmOk(dir, tempPcmPathOf(outputPath))
       THEN /\ dir' = dir \ {tempPcmPathOf(outputPath)}
            /\ IF enableDenoise
               THEN pc' = "pcm_denoise" /\ UNCHANGED <<pcmStatus, sectionResult>>
               ELSE pcmReturn
            /\ UNCHANGED error
       ELSE /\ pc' = "pcm_catch"
            /\ error' = <<"rm failed">>
            /\ UNCHANGED <<dir, pcmStatus, sectionResult>>
    /\ UNCHANGED <<unit, concat, inputs, dictionary, outcome, loop, client, payload, clock,
                   outputPath, sectionReqs, sectionLog, results, successCount,
                   failureCount>>

\* lines 264-266: denoiser.denoise(tempMp3Path, outputPath, options)
\* (audio-denoiser.ts lines 224-285): it throws when the input is missing or
\* ffmpeg fails, and a failing ffmpeg may leave its output file behind
PcmDenoise ==
    /\ pc = "pcm_denoise"
    /\ \E ok \in BOOLEAN, partial \in BOOLEAN :
         /\ ok => partial
         /\ ok => rawMp3PathOf(outputPath) \in dir
         /\ dir' = IF partial THEN dir \cup {outputPath} ELSE dir
         /\ pc' = IF ok THEN "pcm_rm_raw" ELSE "pcm_catch"
         /\ error' = IF ok THEN error ELSE <<"denoise failed">>
    /\ UNCHANGED <<unit, concat, inputs, dictionary, outcome, loop, client, payload, clock, pcm, tally>>

\* line 269: rm of the raw MP3
PcmRmRaw ==
    /\ pc = "pcm_rm_raw"
    /\ IF rmOk(dir, rawMp3PathOf(outputPath))
       THEN /\ dir' = dir \ {rawMp3PathOf(outputPath)}
            /\ pcmReturn
            /\ UNCHANGED error
       ELSE /\ pc' = "pcm_catch"
            /\ error' = <<"rm failed">>
            /\ UNCHANGED <<dir, pcmStatus, sectionResult>>
    /\ UNCHANGED <<unit, concat, inputs, dictionary, outcome, loop, client, payload, clock,
                   outputPath, sectionReqs, sectionLog, results, successCount,
                   failureCount>>

\* lines 272-282: the catch block cleans up and throws the error again
PcmCatch ==
    /\ pc = "pcm_catch"
    /\ dir' = pcmCleanup(dir, outputPath, enableDenoise)
    /\ pcmStatus' = "threw"
    /\ pc' = catchOf(mode)
    /\ UNCHANGED <<unit, concat, inputs, dictionary, outcome, error, loop, client, payload,
                   clock, outputPath, tally>>

(***************************************************************************)
(* generateFromText (lines 500-565)                                         *)
(***************************************************************************)
\* lines 505-510: the length of each chunk of a text, for every dictionary
\* and text explored
chunkLengths ==
    [d \in Dictionaries, id \in TextIds |->
        LET split == splitTextIntoChunks(applyDictionary(d, TextOf(id)), GeminiChunkSize)
        IN  [k \in DOMAIN split |-> Len(split[k])]]

\* lines 504-517: the dictionary is loaded and applied, the text is split
GftStart ==
    /\ pc = "gft_start"
    /\ \E d \in Dictionaries :
         /\ dictionary' = d
         /\ chunks' = chunkLengths[d, text]
    /\ i' = 0
    /\ tempFiles' = <<>>
    /\ pc' = "gft_loop"
    /\ UNCHANGED <<unit, concat, inputs, outcome, error, fsys, client, payload, clock, pcm, tally>>

\* lines 521-525: the next chunk goes to generateAudioChunk(chunk)
GftChunk ==
    /\ pc = "gft_loop"
    /\ i < Len(chunks)
    /\ retryCount' = 0
    /\ callReqs' = 0
    /\ attempts' = <<>>
    /\ sleeps' = <<>>
    /\ gacStatus' = "running"
    /\ pc' = "gac_request"
    /\ UNCHANGED <<unit, concat, inputs, dictionary, outcome, error, loop, fsys, payload, clock,
                   pcm, tally>>

\* lines 533-534: normalizeAudioCharacteristics (lines 477-494), one ffmpeg
\* run from the chunk's MP3 to its normalized MP3
GftNormalize ==
    /\ pc = "gft_normalize"
    /\ LET normalizedPath == normalizedPathOf(tempFilepathOf(filename, i))
       IN  \E ok \in BOOLEAN, partial \in BOOLEAN :
             /\ ok => partial
             /\ ok => tempFilepathOf(filename, i) \in dir
             /\ dir' = IF partial THEN dir \cup {normalizedPath} ELSE dir
             /\ pc' = IF ok THEN "gft_rm_chunk" ELSE "gft_catch"
             /\ error' = IF ok THEN error ELSE <<"ffmpeg failed">>
    /\ UNCHANGED <<unit, concat, inputs, dictionary, outcome, loop, client, payload, clock, pcm, tally>>

\* variant: no wait between chunks
neverWaits(index, count) == FALSE

\* line 540: a wait follows every chunk but the last
waitsAfterChunk(index, count) == index < count - 1

\* lines 535-537: rm of the chunk's MP3; the normalized MP3 joins tempFiles
GftRmChunk ==
    /\ pc = "gft_rm_chunk"
    /\ IF rmOk(dir, tempFilepathOf(filename, i))
       THEN /\ dir' = dir \ {tempFilepathOf(filename, i)}
            /\ tempFiles' = push(tempFiles, normalizedPathOf(tempFilepathOf(filename, i)))
            /\ IF waitsAfterChunk(i, Len(chunks))
               THEN pc' = "gft_wait" /\ i' = i
               ELSE pc' = "gft_loop" /\ i' = i + 1
            /\ UNCHANGED error
       ELSE /\ pc' = "gft_catch"
            /\ error' = <<"rm failed">>
            /\ UNCHANGED <<dir, tempFiles, i>>
    /\ UNCHANGED <<unit, concat, inputs, dictionary, outcome, chunks, client, payload,
                   clock, pcm, tally>>

\* lines 540-542: the wait between two chunks
GftWait ==
    /\ pc = "gft_wait"
    /\ Sleep(rateLimitMs)
    /\ i' = i + 1
    /\ pc' = "gft_loop"
    /\ UNCHANGED <<unit, concat, inputs, dictionary, outcome, error, chunks, tempFiles, fsys, client,
                   payload, pcm, tally>>

\* lines 546-554 once every chunk is done: several chunks go to
\* concatenateAudioFiles, a single one is renamed, none leaves nothing to do
GftFinish ==
    /\ pc = "gft_loop"
    /\ i >= Len(chunks)
    /\ IF Len(tempFiles) > 1
       THEN /\ pc' = "cat_write"
            /\ catStatus' = "running"
            /\ UNCHANGED <<fsys, outcome, error>>
       ELSE IF Len(tempFiles) = 1
       THEN /\ IF tempFiles[1] \in dir
               THEN /\ dir' = (dir \ {tempFiles[1]}) \cup {filename}
                    /\ outcome' = "resolved"
                    /\ pc' = "done"
                    /\ UNCHANGED <<error, catStatus>>
               ELSE /\ pc' = "gft_catch"
                    /\ error' = <<"mv failed">>
                    /\ UNCHANGED <<fsys, outcome, catStatus>>
       ELSE /\ outcome' = "resolved"
            /\ pc' = "done"
            /\ UNCHANGED <<fsys, error, catStatus>>
    /\ UNCHANGED <<unit, fileList, inputs, dictionary, loop, client, payload, clock, pcm, tally>>

\* lines 556-564: the catch block removes tempFiles and throws the error again
GftCatch ==
    /\ pc = "gft_catch"
    /\ dir' = textCleanup(dir, tempFiles)
    /\ outcome' = "rejected"
    /\ pc' = "done"
    /\ UNCHANGED <<unit, concat, inputs, dictionary, error, loop, client, payload, clock,
                   pcm, tally>>

(***************************************************************************)
(* concatenateAudioFiles(tempFiles, filepath) (lines 209-234); its          *)
(* outputPath is the filename of generateFromText                           *)
(***************************************************************************)
\* lines 211-213: writeFile of the manifest, outside the try block
CatWrite ==
    /\ pc = "cat_write"
    /\ \E ok \in BOOLEAN :
         IF ok
         THEN /\ dir' = dir \cup {fileListPathOf(filename)}
              /\ fileList' = tempFiles
              /\ pc' = "cat_ffmpeg"
              /\ UNCHANGED <<error, catStatus>>
         ELSE /\ error' = <<"writeFile failed">>
              /\ catStatus' = "threw"
              /\ pc' = "gft_catch"
              /\ UNCHANGED <<fsys, fileList>>
    /\ UNCHANGED <<unit, inputs, dictionary, outcome, loop, client, payload, clock, pcm, tally>>

\* lines 219-220: ffmpeg -f concat ... -c copy
CatFfmpeg ==
    /\ pc = "cat_ffmpeg"
    /\ \E ok \in BOOLEAN, partial \in BOOLEAN :
         /\ ok => partial
         /\ ok => Range(tempFiles) \subseteq dir /\ fileListPathOf(filename) \in dir
         \* ffmpeg exits at once when its output file is its input file
         /\ ok => fileListPathOf(filename) # filename
         /\ dir' = IF partial THEN dir \cup {filename} ELSE dir
         /\ pc' = IF ok THEN "cat_rm" ELSE "cat_catch"
         /\ error' = IF ok THEN error ELSE <<"ffmpeg failed">>
    /\ UNCHANGED <<unit, concat, inputs, dictionary, outcome, loop, client, payload, clock, pcm, tally>>

\* lines 223-226: rm of the manifest, then of every input file
CatRm ==
    /\ pc = "cat_rm"
    /\ LET after == rmEach(dir, <<fileListPathOf(filename)>> \o tempFiles)
       IN  /\ dir' = after.dir
           /\ IF after.ok
              THEN /\ catStatus' = "returned"
                   /\ outcome' = "resolved"
                   /\ pc' = "done"
                   /\ UNCHANGED error
              ELSE /\ pc' = "cat_catch"
                   /\ error' = <<"rm failed">>
                   /\ UNCHANGED <<outcome, catStatus>>
    /\ UNCHANGED <<unit, fileList, inputs, dictionary, loop, client, payload, clock, pcm, tally>>

\* lines 227-233: the catch block removes the manifest and throws again
CatCatch ==
    /\ pc = "cat_catch"
    /\ dir' = concatCleanup(dir, filename)
    /\ catStatus' = "threw"
    /\ pc' = "gft_catch"
    /\ UNCHANGED <<unit, fileList, inputs, dictionary, outcome, error, loop, client, payload,
                   clock, pcm, tally>>

(***************************************************************************)
(* generate (lines 355-420) and generateSectionAudio (lines 288-350)        *)
(***************************************************************************)
\* lines 362-366
GenStart ==
    /\ pc = "gen_start"
    /\ dictionary' \in Dictionaries
    /\ i' = 0
    /\ pc' = "gen_loop"
    /\ UNCHANGED <<unit, concat, inputs, outcome, error, chunks, tempFiles, fsys, client, payload,
                   clock, pcm, tally>>

\* variant: only the sections without text are passed over
skipsOnlyEmpty(section) == Len(trim(extractNarrationText(section))) = 0

\* lines 373 and 381: the sections generate passes over
skipsSection(section) ==
    \/ section.type = "title"
    \/ section.type = "sectionDivider"
    \/ Len(trim(extractNarrationText(section))) = 0

\* skipsSection, for every section of the pool
skipped == [section \in SectionPool |-> skipsSection(section)]

\* lines 373-384: continue
GenSkip ==
    /\ pc = "gen_loop"
    /\ i < Len(script)
    /\ skipped[script[i + 1]]
    /\ i' = i + 1
    /\ UNCHANGED <<unit, concat, inputs, dictionary, pc, outcome, error, chunks, tempFiles, fsys,
                   client, payload, clock, pcm, tally>>

\* line 387: generateSectionAudio(narrationText, section.title, i)
GenSection ==
    /\ pc = "gen_loop"
    /\ i < Len(script)
    /\ ~skipped[script[i + 1]]
    /\ sectionReqs' = 0
    /\ pc' = "gsa_request"
    /\ UNCHANGED <<unit, concat, inputs, dictionary, outcome, error, loop, fsys, client, payload,
                   clock, pcm, sectionResult, sectionLog, results, successCount,
                   failureCount>>

\* lines 295-340: one request carries the whole text of the section; its
\* audio goes to pcmToMp3, any error to the catch block
GsaRequest ==
    /\ pc = "gsa_request"
    /\ \E r \in Responses :
         /\ Send(0)
         /\ sectionReqs' = sectionReqs + 1
         /\ IF r.kind = "audio"
            THEN /\ payload' = reqCount + 1
                 /\ outputPath' = sectionFilename(TextOf(script[i + 1].title), i)
                 /\ pcmStatus' = "running"
                 /\ pc' = "pcm_write"
                 /\ UNCHANGED error
            ELSE /\ error' = r.message
                 /\ pc' = "gsa_catch"
                 /\ UNCHANGED <<payload, pcm>>
    /\ UNCHANGED <<unit, concat, inputs, dictionary, outcome, loop, fsys, client, sectionResult,
                   sectionLog, results, successCount, failureCount>>

\* variant: the catch block throws the error again, which rejects generate
GsaCatchRethrows ==
    /\ pc = "gsa_catch"
    /\ outcome' = "rejected"
    /\ pc' = "done"
    /\ UNCHANGED <<unit, concat, inputs, dictionary, error, loop, fsys, client, payload, clock,
                   pcm, tally>>

\* lines 346-349: every error ends as { filename: '', success: false }
GsaCatch ==
    /\ pc = "gsa_catch"
    /\ sectionResult' = [filename |-> <<>>, success |-> FALSE]
    /\ pc' = "gen_record"
    /\ UNCHANGED <<unit, concat, inputs, dictionary, outcome, error, loop, fsys, client, payload,
                   clock, pcm, sectionReqs, sectionLog, results, successCount,
                   failureCount>>

\* lines 389-397
GenRecord ==
    /\ pc = "gen_record"
    /\ IF sectionResult.success
       THEN /\ results' = push(results, [sectionTitle |-> script[i + 1].title,
                                         filename |-> sectionResult.filename])
            /\ successCount' = successCount + 1
            /\ UNCHANGED failureCount
       ELSE /\ failureCount' = failureCount + 1
            /\ UNCHANGED <<results, successCount>>
    /\ sectionLog' = Append(sectionLog, [index |-> i, success |-> sectionResult.success])
    /\ pc' = "gen_wait"
    /\ UNCHANGED <<unit, concat, inputs, dictionary, outcome, error, loop, fsys, client, payload,
                   clock, pcm, sectionReqs, sectionResult>>

\* line 400: the wait after every processed section; the locals of the
\* iteration are gone
GenWait ==
    /\ pc = "gen_wait"
    /\ Sleep(rateLimitMs)
    /\ i' = i + 1
    /\ error' = NoError
    /\ sectionResult' = NoResult
    /\ outputPath' = <<>>
    /\ pcmStatus' = "idle"
    /\ pc' = "gen_loop"
    /\ UNCHANGED <<unit, concat, inputs, dictionary, outcome, chunks, tempFiles, fsys, client,
                   payload, sectionReqs, sectionLog, results, successCount,
                   failureCount>>

\* lines 403-419: the result is returned
GenReturn ==
    /\ pc = "gen_loop"
    /\ i >= Len(script)
    /\ outcome' = "resolved"
    /\ pc' = "done"
    /\ UNCHANGED <<unit, concat, inputs, dictionary, error, loop, fsys, client, payload, clock,
                   pcm, tally>>

\* variant: the status tells whether any section succeeded
NarrationResultBySuccess ==
    [status       |-> IF successCount > 0 THEN "success" ELSE "error",
     files        |-> results,
     totalSections|-> Len(script),
     successCount |-> successCount,
     failureCount |-> failureCount]

\* lines 409-419
NarrationResult ==
    [status       |-> IF failureCount = 0 THEN "success" ELSE "error",
     files        |-> results,
     totalSections|-> Len(script),
     successCount |-> successCount,
     failureCount |-> failureCount]

Next ==
    \/ GftStart \/ GftChunk \/ GacRequest \/ GacSleep
    \/ PcmWrite \/ PcmTranscode \/ PcmRm \/ PcmDenoise \/ PcmRmRaw \/ PcmCatch
    \/ GftNormalize \/ GftRmChunk \/ GftWait \/ GftFinish \/ GftCatch
    \/ CatWrite \/ CatFfmpeg \/ CatRm \/ CatCatch
    \/ GenStart \/ GenSkip \/ GenSection \/ GsaRequest \/ GsaCatch
    \/ GenRecord \/ GenWait \/ GenReturn

Spec == Init /\ [][Next]_vars

(***************************************************************************)
(* splitTextIntoChunks and applyDictionary called on their own              *)
(***************************************************************************)
\* the agent is constructed and neither generate nor generateFromText runs
MainIdle ==
    /\ mode = "unit"
    /\ rateLimitMs = PaidRateLimitMs
    /\ enableDenoise = FALSE
    /\ text = "empty" /\ filename = <<>> /\ script = <<>>
    /\ dictionary = NullDictionary
    /\ pc = "none"
    /\ outcome = "running"
    /\ error = NoError
    /\ i = 0 /\ chunks = <<>> /\ tempFiles = <<>>
    /\ dir = {}
    /\ retryCount = 0 /\ callReqs = 0 /\ attempts = <<>> /\ sleeps = <<>> /\ gacStatus = "idle"
    /\ payload = 0
    /\ waited = 0 /\ reqCount = 0 /\ lastGap = 0 /\ lastRetry = 0
    /\ outputPath = <<>> /\ pcmStatus = "idle"
    /\ sectionReqs = 0 /\ sectionResult = NoResult /\ sectionLog = <<>>
    /\ results = <<>> /\ successCount = 0 /\ failureCount = 0
    /\ catStatus = "idle" /\ fileList = <<>>

main == <<inputs, dictionary, pc, outcome, error, loop, fsys, client, payload,
          clock, pcm, tally, concat>>

\* splitTextIntoChunks(text, maxChunkSize) is called
SplitInit ==
    /\ MainIdle
    /\ unitPc = "call"
    /\ unitArgs \in [text : SplitTexts, maxChunkSize : 1..MaxChunk]
    /\ processedText = <<>>
    /\ pending = <<>>
    /\ passes = <<>>
    /\ returned = <<>>
    /\ DenoiserIdle
    /\ ServerIdle

\* lines 173-204
SplitCall ==
    /\ unitPc = "call"
    /\ returned' = splitTextIntoChunks(unitArgs.text, unitArgs.maxChunkSize)
    /\ unitPc' = "done"
    /\ UNCHANGED <<main, denoiser, server, unitArgs, processedText, pending, passes>>

SplitNext == SplitCall

SplitSpec == SplitInit /\ [][SplitNext]_vars

\* applyDictionary(text) is called with this.dictionary as loadDictionary
\* left it: null, or the parsed file
DictInit ==
    /\ MainIdle
    /\ unitPc = "call"
    /\ \/ unitArgs \in [text : DictTexts, replacements : {NullDictionary}]
       \/ unitArgs \in [text : DictTexts, replacements : Replacements]
    /\ processedText = <<>>
    /\ pending = <<>>
    /\ passes = <<>>
    /\ returned = <<>>
    /\ DenoiserIdle
    /\ ServerIdle

\* lines 119-125
DictStart ==
    /\ unitPc = "call"
    /\ IF unitArgs.replacements = NullDictionary
       THEN /\ returned' = unitArgs.text
            /\ unitPc' = "done"
            /\ UNCHANGED <<processedText, pending>>
       ELSE /\ processedText' = unitArgs.text
            /\ pending' = sortedEntries(unitArgs.replacements)
            /\ unitPc' = "loop"
            /\ UNCHANGED returned
    /\ UNCHANGED <<main, denoiser, server, unitArgs, passes>>

\* lines 128-134: one entry is applied
DictPass ==
    /\ unitPc = "loop"
    /\ pending # <<>>
    /\ processedText' = replaceFrom(processedText, pending[1][1], pending[1][2], 1)
    /\ passes' = Append(passes, [original    |-> pending[1][1],
                                 replacement |-> pending[1][2],
                                 before      |-> processedText,
                                 after       |-> processedText'])
    /\ pending' = Tail(pending)
    /\ UNCHANGED <<main, denoiser, server, unitPc, unitArgs, returned>>

\* line 136
DictReturn ==
    /\ unitPc = "loop"
    /\ pending = <<>>
    /\ returned' = processedText
    /\ unitPc' = "done"
    /\ UNCHANGED <<main, denoiser, server, unitArgs, processedText, pending, passes>>

DictNext == DictStart \/ DictPass \/ DictReturn

DictSpec == DictInit /\ [][DictNext]_vars

(***************************************************************************)
(* AudioDenoiser (src/src/narration/audio-denoiser.ts).  A level in dB is    *)
(* counted in tenths of a dB; a JavaScript number is a record that says      *)
(* whether it is NaN.                                                       *)
(***************************************************************************)
\* audio-denoiser.ts:71   rmsMatch ? parseFloat(rmsMatch[1]) : -30
DefaultRmsTenths == -300
\* audio-denoiser.ts:72   peakMatch ? parseFloat(peakMatch[1]) : -10
DefaultPeakTenths == -100
\* audio-denoiser.ts:86, 90, 94   dynamicRange < 10, < 20, < 30
StrongRangeTenths == 100
MediumRangeTenths == 200
LightRangeTenths == 300
\* audio-denoiser.ts:101  rmsLevel < -40
QuietRmsTenths == -400

Num(t) == [nan |-> FALSE, tenths |-> t]

NaN == [nan |-> TRUE, tenths |-> 0]

\* the - operator of line 73
minus(a, b) == IF a.nan \/ b.nan THEN NaN ELSE Num(a.tenths - b.tenths)

\* variant: the comparison includes equality
lessThanOrEqual(a, b) == ~a.nan /\ ~b.nan /\ a.tenths <= b.tenths

\* the < operator of lines 86-101: false when an operand is NaN
lessThan(a, b) == ~a.nan /\ ~b.nan /\ a.tenths < b.tenths

\* Math.max of line 102 (both operands are numbers there)
max(a, b) == IF a < b THEN b ELSE a

DigitChars == Range(Digits)

DigitValue(c) == (CHOOSE d \in DOMAIN Digits : Digits[d] = c) - 1

RECURSIVE digitsOf(_)
digitsOf(n) ==
    IF n < 10 THEN <<Digits[n + 1]>> ELSE digitsOf(n \div 10) \o <<Digits[(n % 10) + 1]>>

\* what astats prints after 'RMS level dB: ' or 'Peak level dB: ' for a
\* level of t tenths of a dB (the decimals after the first are zeros here)
printLevel(t) ==
    LET a == IF t < 0 THEN -t ELSE t
    IN  (IF t < 0 THEN <<"-">> ELSE <<>>) \o digitsOf(a \div 10) \o <<".">> \o digitsOf(a % 10)

\* what astats prints for a channel of digital silence
MinusInfinity == <<"-", "i", "n", "f">>

\* the longest prefix of s made of the characters of S
RECURSIVE takeWhile(_, _)
takeWhile(s, S) ==
    IF s = <<>> \/ s[1] \notin S THEN <<>> ELSE <<s[1]>> \o takeWhile(Tail(s), S)

\* lines 68-69: the group ([-\d.]+) of the match against the text that
\* follows the label; the empty sequence stands for a null match
captured(after) == takeWhile(after, DigitChars \cup {"-", "."})

RECURSIVE valueOf(_)
valueOf(ds) == IF ds = <<>> THEN 0 ELSE valueOf(SubSeq(ds, 1, Len(ds) - 1)) * 10 + DigitValue(ds[Len(ds)])

\* parseFloat (lines 71-72): an optional sign, digits, an optional point and
\* digits; NaN when there is no digit; the tenths are kept
parseFloat(s) ==
    LET negative == s # <<>> /\ s[1] = "-"
        body     == IF negative THEN Tail(s) ELSE s
        whole    == takeWhile(body, DigitChars)
        rest     == SubSeq(body, Len(whole) + 1, Len(body))
        decimals == IF rest # <<>> /\ rest[1] = "." THEN takeWhile(Tail(rest), DigitChars) ELSE <<>>
        tenths   == valueOf(whole) * 10 + (IF decimals = <<>> THEN 0 ELSE DigitValue(decimals[1]))
    IN  IF whole = <<>> /\ decimals = <<>> THEN NaN
        ELSE Num(IF negative THEN -tenths ELSE tenths)

\* lines 119-124: the profile of the catch block
DefaultProfile == [type |-> "mixed", level |-> 30, recommendedLevel |-> "medium"]

\* lines 100-104
quietOverride(profile, rmsLevel) ==
    IF lessThan(rmsLevel, Num(QuietRmsTenths))
    THEN [profile EXCEPT !.level = max(@, 50), !.recommendedLevel = "medium"]
    ELSE profile

\* lines 80-98
classify(dynamicRange) ==
    IF lessThan(dynamicRange, Num(StrongRangeTenths))
    THEN [type |-> "white_noise", level |-> 70, recommendedLevel |-> "strong"]
    ELSE IF lessThan(dynamicRange, Num(MediumRangeTenths))
    THEN [type |-> "room_tone", level |-> 40, recommendedLevel |-> "medium"]
    ELSE IF lessThan(dynamicRange, Num(LightRangeTenths))
    THEN [type |-> "background_hum", level |-> 15, recommendedLevel |-> "light"]
    ELSE [type |-> "mixed", level |-> 0, recommendedLevel |-> "none"]

\* lines 67-116: the profile computed from the output of astats
analyze(statsOutput) ==
    LET rmsMatch     == captured(statsOutput.rms)
        peakMatch    == captured(statsOutput.peak)
        rmsLevel     == IF rmsMatch # <<>> THEN parseFloat(rmsMatch) ELSE Num(DefaultRmsTenths)
        peakLevel    == IF peakMatch # <<>> THEN parseFloat(peakMatch) ELSE Num(DefaultPeakTenths)
        dynamicRange == minus(peakLevel, rmsLevel)
    IN  quietOverride(classify(dynamicRange), rmsLevel)

\* what astats prints for a measured level: a number, -inf, or no line
statText(reading) ==
    CASE reading.kind = "number" -> printLevel(reading.tenths)
      [] reading.kind = "-inf"   -> MinusInfinity
      [] reading.kind = "absent" -> <<>>

\* lines 58-126: tool says whether each of the two ffmpeg runs succeeded and
\* what the first one measured
detectNoise(tool) ==
    IF tool.statsOk /\ tool.spectrumOk
    THEN analyze([rms |-> statText(tool.rms), peak |-> statText(tool.peak)])
    ELSE DefaultProfile

BreathChain ==
    << "agate=threshold=-35dB:ratio=10:attack=10:release=100:makeup=2",
       "highpass=f=120:poles=2",
       "afftdn=nf=-25:tn=1:om=o:tn=1",
       "silenceremove=start_periods=1:start_duration=0.1:start_threshold=-40dB:detection=peak",
       "lowpass=f=8000:poles=2" >>

\* lines 207-216
qualityFilters(preserveQuality) ==
    IF preserveQuality
    THEN << "acompressor=threshold=-18dB:ratio=3:attack=20:release=250",
            "equalizer=f=3000:t=h:width=1000:g=2" >>
    ELSE << "loudnorm=I=-16:TP=-1.5:LRA=11" >>

\* lines 131-219: the filters joined by line 218, '' being the empty chain
buildDenoiseFilter(level, type, preserveQuality) ==
    IF type = "breath"
    THEN BreathChain
         \o (IF level \in {"strong", "auto"}
             THEN << "afftdn=nf=-30:tn=1",
                     "silenceremove=stop_periods=-1:stop_duration=0.2:stop_threshold=-45dB" >>
             ELSE <<>>)
         \o qualityFilters(preserveQuality)
    ELSE CASE level = "light" ->
                << "afftdn=nf=-20:tn=1" >>
                \o (IF type = "background_hum" THEN << "highpass=f=80" >> ELSE <<>>)
                \o qualityFilters(preserveQuality)
           [] level = "medium" ->
                << "afftdn=nf=-25:tn=1", "highpass=f=100", "lowpass=f=8000" >>
                \o (IF type \in {"click_pop", "mixed"} THEN << "adeclick=t=1", "adeclip" >> ELSE <<>>)
                \o qualityFilters(preserveQuality)
           [] level = "strong" ->
                << "afftdn=nf=-30:tn=1", "highpass=f=120", "lowpass=f=7000",
                   "anlmdn=s=0.001:p=0.002:r=0.002:m=15", "adeclick=t=1", "adeclip" >>
                \o (IF type = "white_noise" THEN << "highpass=f=150" >> ELSE <<>>)
                \o qualityFilters(preserveQuality)
           [] OTHER -> <<>>

\* the enum DenoiseLevel (lines 11-17) and the enum NoiseType (lines 22-29)
DenoiseLevels == {"none", "light", "medium", "strong", "auto"}

NoiseTypes == {"white_noise", "background_hum", "click_pop", "room_tone", "breath", "mixed"}

Number(t) == [kind |-> "number", tenths |-> t]
MinusInf == [kind |-> "-inf", tenths |-> 0]
Absent == [kind |-> "absent", tenths |-> 0]

\* the RMS levels and dynamic ranges measured, in tenths of a dB
RmsLevels == {-600, -401, -400, -350}

DynamicRanges == {0, 50, 99, 100, 199, 200, 250, 299, 300, 350}

\* what astats measures: a signal (its peak is not below its RMS level),
\* digital silence, or output in which a statistic is missing
Measurements ==
    { [rms |-> Number(r), peak |-> Number(r + d)] : r \in RmsLevels, d \in DynamicRanges }
    \cup { [rms |-> MinusInf, peak |-> MinusInf] }
    \cup { [rms |-> Absent, peak |-> Absent],
           [rms |-> Absent, peak |-> Number(-50)],
           [rms |-> Number(-450), peak |-> Absent] }

ToolRuns ==
    { [statsOk |-> a, spectrumOk |-> b, rms |-> m.rms, peak |-> m.peak] :
          a \in BOOLEAN, b \in BOOLEAN, m \in Measurements }

\* buildDenoiseFilter runs no tool
NoToolRun == [statsOk |-> TRUE, spectrumOk |-> TRUE, rms |-> Absent, peak |-> Absent]

\* denoise(inputPath, outputPath, options), detectNoise(audioPath) or
\* buildDenoiseFilter(level, noiseType, preserveQuality) is called
DenoiserInit ==
    /\ MainIdle
    /\ unitPc = "call"
    /\ \/ unitArgs \in [call : {"denoise"}, level : DenoiseLevels, preserveQuality : BOOLEAN,
                        targetType : NoiseTypes \cup {"undefined"}, exists : BOOLEAN,
                        tool : ToolRuns, ffmpegOk : BOOLEAN]
       \/ unitArgs \in [call : {"detectNoise"}, level : {"auto"}, preserveQuality : {TRUE},
                        targetType : {"undefined"}, exists : {TRUE},
                        tool : ToolRuns, ffmpegOk : {TRUE}]
       \/ unitArgs \in [call : {"buildDenoiseFilter"}, level : DenoiseLevels,
                        preserveQuality : BOOLEAN, targetType : NoiseTypes, exists : {TRUE},
                        tool : {NoToolRun}, ffmpegOk : {TRUE}]
    /\ processedText = <<>>
    /\ pending = <<>>
    /\ passes = <<>>
    /\ returned = <<>>
    /\ DenoiserIdle
    /\ ServerIdle

\* lines 58-126, called on its own
DetectCall ==
    /\ unitPc = "call"
    /\ unitArgs.call = "detectNoise"
    /\ analysis' = detectNoise(unitArgs.tool)
    /\ unitPc' = "done"
    /\ UNCHANGED <<main, server, unitArgs, processedText, pending, passes, returned,
                   actualLevel, noiseType, filter, output>>

\* lines 131-219, called on its own
FilterCall ==
    /\ unitPc = "call"
    /\ unitArgs.call = "buildDenoiseFilter"
    /\ filter' = buildDenoiseFilter(unitArgs.level, unitArgs.targetType, unitArgs.preserveQuality)
    /\ unitPc' = "done"
    /\ UNCHANGED <<main, server, unitArgs, processedText, pending, passes, returned,
                   analysis, actualLevel, noiseType, output>>

\* lines 232-246
DenoiseStart ==
    /\ unitPc = "call"
    /\ unitArgs.call = "denoise"
    /\ IF ~unitArgs.exists
       THEN unitPc' = "threw" /\ UNCHANGED <<actualLevel, noiseType>>
       ELSE /\ actualLevel' = unitArgs.level
            /\ noiseType' = IF unitArgs.targetType = "undefined" THEN "mixed"
                            ELSE unitArgs.targetType
            /\ unitPc' = IF unitArgs.level = "auto" THEN "detect" ELSE "decide"
    /\ UNCHANGED <<main, server, unitArgs, processedText, pending, passes, returned,
                   analysis, filter, output>>

\* lines 247-250
DenoiseDetect ==
    /\ unitPc = "detect"
    /\ analysis' = detectNoise(unitArgs.tool)
    /\ actualLevel' = analysis'.recommendedLevel
    /\ noiseType' = analysis'.type
    /\ unitPc' = "decide"
    /\ UNCHANGED <<main, server, unitArgs, processedText, pending, passes, returned, filter, output>>

\* lines 253-261
DenoiseDecide ==
    /\ unitPc = "decide"
    /\ IF actualLevel = "none"
       THEN output' = "copy" /\ unitPc' = "done" /\ UNCHANGED filter
       ELSE /\ filter' = buildDenoiseFilter(actualLevel, noiseType, unitArgs.preserveQuality)
            /\ unitPc' = "ffmpeg"
            /\ UNCHANGED output
    /\ UNCHANGED <<main, server, unitArgs, processedText, pending, passes, returned,
                   analysis, actualLevel, noiseType>>

\* lines 264-284
DenoiseFfmpeg ==
    /\ unitPc = "ffmpeg"
    /\ IF unitArgs.ffmpegOk
       THEN output' = "filtered" /\ unitPc' = "done"
       ELSE unitPc' = "threw" /\ UNCHANGED output
    /\ UNCHANGED <<main, server, unitArgs, processedText, pending, passes, returned,
                   analysis, actualLevel, noiseType, filter>>

DenoiserNext ==
    \/ DetectCall \/ FilterCall
    \/ DenoiseStart \/ DenoiseDetect \/ DenoiseDecide \/ DenoiseFfmpeg

DenoiserSpec == DenoiserInit /\ [][DenoiserNext]_vars

(***************************************************************************)
(* The dictionary routes of the web server (src/src/web-app/server.ts).     *)
(* The replacements object is the set of its <<word, reading>> entries.      *)
(***************************************************************************)
\* dictionary.replacements[word] = reading (line 196)
setEntry(replacements, word, reading) ==
    {e \in replacements : e[1] # word} \cup {<<word, reading>>}

\* delete dictionary.replacements[word] (line 227)
deleteEntry(replacements, word) == {e \in replacements : e[1] # word}

\* dictionary.replacements[word] is truthy (line 223)
hasEntry(replacements, word) == \E e \in replacements : e[1] = word /\ e[2] # <<>>

\* the two requests handled at the same time
Requests == {"first", "second"}

\* the bodies of POST /api/dictionary/add and the words of DELETE
\* /api/dictionary/:word
RequestPool ==
    { [kind |-> "add", word |-> <<"a">>, reading |-> <<"x">>],
      [kind |-> "add", word |-> <<"a">>, reading |-> <<"y">>],
      [kind |-> "add", word |-> <<" ", "b">>, reading |-> <<"x">>],
      [kind |-> "add", word |-> <<>>, reading |-> <<"x">>],
      [kind |-> "delete", word |-> <<"a">>, reading |-> <<>>],
      [kind |-> "delete", word |-> <<"b">>, reading |-> <<>>] }

\* what dictionary.json holds when the requests arrive
StoredDictionaries ==
    { {}, { <<<<"a">>, <<"x">>>> }, { <<<<"a">>, <<"x">>>>, <<<<"b">>, <<"x">>>> } }

ServerInit ==
    /\ MainIdle
    /\ unitPc = "serve"
    /\ unitArgs \in [initial : StoredDictionaries, requests : [Requests -> RequestPool]]
    /\ processedText = <<>>
    /\ pending = <<>>
    /\ passes = <<>>
    /\ returned = <<>>
    /\ DenoiserIdle
    /\ dictFile = unitArgs.initial
    /\ reqPc = [q \in Requests |-> "received"]
    /\ reqLocal = [q \in Requests |-> {}]
    /\ reqAnswer = [q \in Requests |-> "none"]

\* lines 187-193 and 218-220: up to the await of readFile
Receive(q) ==
    /\ reqPc[q] = "received"
    /\ LET request == unitArgs.requests[q]
       IN  IF request.kind = "add" /\ (request.word = <<>> \/ request.reading = <<>>)
           THEN /\ reqAnswer' = [reqAnswer EXCEPT ![q] = "400"]
                /\ reqPc' = [reqPc EXCEPT ![q] = "done"]
           ELSE /\ reqPc' = [reqPc EXCEPT ![q] = "readFile"]
                /\ UNCHANGED reqAnswer
    /\ UNCHANGED <<main, denoiser, unitPc, unitArgs, processedText, pending, passes, returned,
                   dictFile, reqLocal>>

\* lines 193-198 and 220-229: readFile completes, the dictionary is parsed
\* and changed, up to the await of writeFile
ReadFile(q) ==
    /\ reqPc[q] = "readFile"
    /\ \E ok \in BOOLEAN :
         LET request == unitArgs.requests[q]
         IN  IF ~ok
             THEN /\ reqAnswer' = [reqAnswer EXCEPT ![q] = "500"]
                  /\ reqPc' = [reqPc EXCEPT ![q] = "done"]
                  /\ UNCHANGED reqLocal
             ELSE IF request.kind = "delete" /\ ~hasEntry(dictFile, request.word)
             THEN /\ reqAnswer' = [reqAnswer EXCEPT ![q] = "404"]
                  /\ reqPc' = [reqPc EXCEPT ![q] = "done"]
                  /\ reqLocal' = [reqLocal EXCEPT ![q] = dictFile]
             ELSE /\ reqLocal' = [reqLocal EXCEPT ![q] =
                                    IF request.kind = "add"
                                    THEN setEntry(dictFile, trim(request.word), trim(request.reading))
                                    ELSE deleteEntry(dictFile, request.word)]
                  /\ reqPc' = [reqPc EXCEPT ![q] = "writeFile"]
                  /\ UNCHANGED reqAnswer
    /\ UNCHANGED <<main, denoiser, unitPc, unitArgs, processedText, pending, passes, returned,
                   dictFile>>

\* lines 198-205 and 229-235: writeFile completes and the response is sent
WriteFile(q) ==
    /\ reqPc[q] = "writeFile"
    /\ \E ok \in BOOLEAN :
         IF ok
         THEN /\ dictFile' = reqLocal[q]
              /\ reqAnswer' = [reqAnswer EXCEPT ![q] = "success"]
         ELSE /\ reqAnswer' = [reqAnswer EXCEPT ![q] = "500"]
              /\ UNCHANGED dictFile
    /\ reqPc' = [reqPc EXCEPT ![q] = "done"]
    /\ UNCHANGED <<main, denoiser, unitPc, unitArgs, processedText, pending, passes, returned,
                   reqLocal>>

ServerNext == \E q \in Requests : Receive(q) \/ ReadFile(q) \/ WriteFile(q)

ServerSpec == ServerInit /\ [][ServerNext]_vars

(***************************************************************************)
(* Properties                                                               *)
(***************************************************************************)
\* the markers that make an error message a transient one; every other
\* message is a permanent error
TransientMarkers == {"INTERNAL", "500", "503"}

IsTransient(message) == \E k \in DOMAIN message : message[k] \in TransientMarkers

Last(s) == s[Len(s)]

\* the temporary files generateFromText(text, name) makes for n chunks: per
\* chunk its decoded MP3, normalized MP3, temporary PCM and raw MP3, and the
\* manifest of the concatenation
TempArtifacts(name, n) ==
    UNION { { tempFilepathOf(name, k),
              normalizedPathOf(tempFilepathOf(name, k)),
              tempPcmPathOf(tempFilepathOf(name, k)),
              rawMp3PathOf(tempFilepathOf(name, k)) } : k \in 0..(n - 1) }
    \cup {fileListPathOf(name)}

\* line 295: the length of the text generateSectionAudio sends, for every
\* dictionary and section explored
processedLength ==
    [d \in Dictionaries, section \in SectionPool |->
        Len(applyDictionary(d, extractNarrationText(section)))]

\* C1 as stated: one call of generateAudioChunk sends at most 3 requests to
\* the synthesis service, the first attempt included.
C1_AtMostThreeRequests == callReqs <= 3

\* C1, amended: one call of generateAudioChunk sends at most 4 requests (the
\* first attempt and maxRetries = 3 retries) and sleeps at most 3 times; once
\* the 4th attempt has failed the call has thrown, with no further sleep or
\* request pending.
C1_AtMostFourRequests ==
    /\ callReqs <= 4
    /\ Len(sleeps) <= 3
    /\ Len(attempts) = 4 => gacStatus = "threw" /\ pc # "gac_sleep" /\ Len(sleeps) = 3

C1_Witness ==
    /\ gacStatus = "threw"
    /\ callReqs = 4
    /\ \A k \in DOMAIN attempts : IsTransient(attempts[k])

\* C2: when generateFromText rejects, none of the per-chunk temporary files
\* of the run (decoded chunk MP3, normalized chunk MP3, temporary PCM, raw
\* MP3, concat manifest) remains in the output directory.
C2_NoTempFileAfterReject ==
    (mode = "text" /\ outcome = "rejected")
        => dir \cap TempArtifacts(filename, Len(chunks)) = {}

\* C3: whenever pcmToMp3 has returned or thrown, neither its '_temp.pcm' file
\* nor its '_raw.mp3' intermediate exists.
C3_PcmTempsGone ==
    pcmStatus \in {"returned", "threw"}
        => /\ tempPcmPathOf(outputPath) \notin dir
           /\ rawMp3PathOf(outputPath) \notin dir

\* C4 as stated: any two consecutive requests to the synthesis service, a
\* retry of the same chunk included, are separated by a wait of at least
\* rateLimitMs.
C4_GapAtLeastRateLimit == reqCount >= 2 => lastGap >= rateLimitMs

\* C4, amended: two consecutive requests for different chunks or sections
\* are separated by a wait of at least rateLimitMs; the k-th retry of a chunk
\* follows the previous attempt after the backoff of 1000 * 2^(k-1) ms only.
C4_GapByKind ==
    reqCount >= 2
        => IF lastRetry = 0 THEN lastGap >= rateLimitMs
           ELSE lastGap = 1000 * (2 ^ (lastRetry - 1))

C4_Witness ==
    /\ mode = "text"
    /\ rateLimitMs = 35000
    /\ reqCount >= 3
    /\ lastRetry = 0
    /\ i = 1
    /\ Len(attempts) = 0
    /\ gacStatus = "returned"

\* C5: generate runs a section through the stages of generateFromText: when
\* generateSectionAudio has returned, a section whose text is longer than
\* the maximum chunk size and succeeded has caused more than one synthesis
\* request, and a section that failed on a transient service error was
\* retried (more than one request) first.
C5_SectionsChunkedAndRetried ==
    pc = "gen_record"
        => /\ (sectionResult.success /\
               processedLength[dictionary, script[i + 1]] > GeminiChunkSize)
                  => sectionReqs > 1
           /\ (~sectionResult.success /\ IsTransient(error)) => sectionReqs > 1

\* C6: generate never rejects; once it has returned, every section that is
\* not skipped has been processed exactly once, in script order, whatever
\* happened to the sections before it, and successCount and failureCount
\* count the sections that succeeded and failed, one each.
C6_SectionFailureIsolated ==
    mode = "script"
        => /\ outcome # "rejected"
           /\ pc = "done"
                => LET narratable == {k \in DOMAIN script : ~skipped[script[k]]}
                   IN  /\ Len(sectionLog) = Cardinality(narratable)
                       /\ {sectionLog[k].index + 1 : k \in DOMAIN sectionLog} = narratable
                       /\ \A j, k \in DOMAIN sectionLog :
                              j < k => sectionLog[j].index < sectionLog[k].index
                       /\ NarrationResult.failureCount =
                              Cardinality({k \in DOMAIN sectionLog : ~sectionLog[k].success})
                       /\ NarrationResult.successCount =
                              Cardinality({k \in DOMAIN sectionLog : sectionLog[k].success})
                       /\ NarrationResult.totalSections = Len(script)
                       /\ \A k \in DOMAIN sectionLog :
                              sectionLog[k].success
                                  => sectionFilename(TextOf(script[sectionLog[k].index + 1].title),
                                                     sectionLog[k].index) \in dir

C6_Witness ==
    /\ mode = "script"
    /\ pc = "done"
    /\ outcome = "resolved"
    /\ Len(sectionLog) = 3
    /\ sectionLog[1].success /\ ~sectionLog[2].success /\ sectionLog[3].success
    /\ NarrationResult.totalSections = 3
    /\ NarrationResult.successCount = 2
    /\ NarrationResult.failureCount = 1
    /\ NarrationResult.status = "error"

\* C7: when generateAudioChunk returns after n failed attempts, every one of
\* them was transient, it slept exactly n times, 1000 ms, 2000 ms, ...
\* doubling each time, and the payload it returns is that of the last
\* request (attempt n + 1).
C7_BackoffThenSuccess ==
    gacStatus = "returned"
        => /\ callReqs = Len(attempts) + 1
           /\ Len(sleeps) = Len(attempts)
           /\ \A k \in DOMAIN attempts : IsTransient(attempts[k])
           /\ \A k \in DOMAIN sleeps : sleeps[k] = 1000 * (2 ^ (k - 1))
           /\ payload = reqCount

C7_Witness ==
    /\ gacStatus = "returned"
    /\ Len(attempts) = 2
    /\ sleeps = <<1000, 2000>>
    /\ callReqs = 3

C9_LastMessageThrown ==
    gacStatus = "threw"
        => error = <<"Gemini API error: ">> \o
                   (IF Last(attempts) # <<>> THEN Last(attempts) ELSE <<"Unknown error">>) \o
                   <<". Please try again later.">>

C9_Witness ==
    /\ gacStatus = "threw"
    /\ Len(attempts) = 3
    /\ attempts[1] # attempts[3]
    /\ attempts[2] # attempts[3]
    /\ includes(error, "429")

\* C10: once generateFromText has resolved for a text of n >= 1 chunks and a
\* filename ending in '.mp3', the output file exists and none of the
\* per-chunk temporary files of the run does.
C10_OnlyOutputRemains ==
    (mode = "text" /\ outcome = "resolved" /\ Len(chunks) >= 1 /\ Last(filename) = ".mp3")
        => /\ filename \in dir
           /\ dir \cap TempArtifacts(filename, Len(chunks)) = {}
           /\ dir = {filename}

C10_Witness ==
    /\ mode = "text"
    /\ outcome = "resolved"
    /\ Len(chunks) = 3
    /\ enableDenoise
    /\ dir = {filename}

\* C11: after concatenateAudioFiles has returned or thrown, its manifest does
\* not exist; when it returned, none of the input files exists either; when
\* it threw, the error of the failed step (writeFile, ffmpeg or rm) is the
\* one that reaches the caller, which then rejects.
C11_ManifestGone ==
    /\ catStatus \in {"returned", "threw"} => fileListPathOf(filename) \notin dir
    /\ catStatus = "returned"
          => /\ Len(fileList) > 1
             /\ Range(fileList) \cap dir = {}
             /\ outcome = "resolved"
    /\ catStatus = "threw"
          => /\ error \in {<<"writeFile failed">>, <<"ffmpeg failed">>, <<"rm failed">>}
             /\ outcome # "resolved"
             /\ pc \in {"gft_catch", "done"}
             /\ pc = "done" => outcome = "rejected"

C11_Witness ==
    /\ catStatus = "threw"
    /\ pc = "gft_catch"
    /\ error = <<"ffmpeg failed">>
    /\ Len(fileList) = 3
    /\ Range(fileList) \subseteq dir
    /\ filename \in dir

\* C12: the result of generate has status 'success' exactly when no
\* processed section failed, that is when failureCount is 0; a script whose
\* sections are all skipped gives 'success'.
C12_StatusIffNoFailure ==
    (mode = "script" /\ pc = "done")
        => /\ NarrationResult.status \in {"success", "error"}
           /\ (NarrationResult.status = "success")
                  <=> (\A k \in DOMAIN sectionLog : sectionLog[k].success)
           /\ (NarrationResult.status = "success") <=> (NarrationResult.failureCount = 0)

C12_Witness ==
    /\ mode = "script"
    /\ pc = "done"
    /\ Len(script) = 3
    /\ sectionLog = <<>>
    /\ NarrationResult.successCount = 0
    /\ NarrationResult.status = "success"

\* a section with a type that is narrated and a text that is not white
\* space only
Narratable(section) ==
    /\ section.type \notin {"title", "sectionDivider"}
    /\ \E c \in Range(TextOf(section.title)) \cup Range(TextOf(section.narration)) :
           c \notin WhiteSpace

\* Narratable, for every section of the pool
narratableSections == {section \in SectionPool : Narratable(section)}

\* sectionFilename, for every section of the pool at every index
sectionPaths ==
    [section \in SectionPool, index \in 0..(MaxSections - 1) |->
        sectionFilename(TextOf(section.title), index)]

\* the files generateSectionAudio makes for a section at every index
sectionFiles ==
    [section \in SectionPool, index \in 0..(MaxSections - 1) |->
        { sectionPaths[section, index],
          tempPcmPathOf(sectionPaths[section, index]),
          rawMp3PathOf(sectionPaths[section, index]) }]

\* the files generateSectionAudio makes for section k of the script
SectionArtifacts(k) == sectionFiles[script[k], k - 1]

\* C13: a section of type 'title' or 'sectionDivider', or whose text is empty
\* or white space only, causes no synthesis request, no file and no count:
\* the requests sent and the sections counted never exceed the narratable
\* sections reached so far, no file of a skipped section exists, and when
\* generate returns, requests and counts equal the narratable sections.
C13_SkippedSectionsUntouched ==
    mode = "script"
        => LET reached    == {k \in DOMAIN script : k <= i + 1}
               narratable == {k \in reached : script[k] \in narratableSections}
           IN  /\ reqCount <= Cardinality(narratable)
               /\ successCount + failureCount <= Cardinality(narratable)
               /\ \A k \in DOMAIN script :
                      script[k] \notin narratableSections => SectionArtifacts(k) \cap dir = {}
               /\ pc = "done"
                      => /\ reqCount = Cardinality(narratable)
                         /\ successCount + failureCount = Cardinality(narratable)

C13_Witness ==
    /\ mode = "script"
    /\ pc = "done"
    /\ Len(script) = 3
    /\ script[1].type = "title"
    /\ script[2].type = "content" /\ script[2] \notin narratableSections
    /\ script[3].type = "content" /\ script[3] \in narratableSections
    /\ reqCount = 1
    /\ successCount = 1
    /\ Cardinality(dir) = 1

\* the chunk numbers of one digit
ChunkNumbers == {d - 1 : d \in DOMAIN Digits}

\* per filename and chunk (counted from 0) of generateFromText, the
\* normalized file of the chunk
normalizedPaths ==
    [name \in FileNames, k \in ChunkNumbers |->
        normalizedPathOf(tempFilepathOf(name, k))]

\* per filename and chunk, the files made for the chunk
chunkFiles ==
    [name \in FileNames, k \in ChunkNumbers |->
        { tempFilepathOf(name, k), normalizedPaths[name, k],
          tempPcmPathOf(tempFilepathOf(name, k)),
          rawMp3PathOf(tempFilepathOf(name, k)) }]

\* the normalized file of chunk k of the run
NormalizedChunk(k) == normalizedPaths[filename, k]

\* C14: chunks are synthesized one at a time in the order of the split:
\* tempFiles holds the normalized files of chunks 0, 1, ... in that order,
\* while chunk i is being synthesized all chunks before it are finished and
\* no file of a later chunk exists, and the manifest of the concatenation
\* lists the chunks in the same order.  Sections are synthesized in script
\* order: the sections processed so far have increasing indices below the
\* one being synthesized, no file of a later section exists, and the files
\* of the result are the successful sections in that order.
C14_InOrderOneAtATime ==
    /\ mode = "text"
          => /\ Len(tempFiles) <= Len(chunks)
             /\ \A k \in DOMAIN tempFiles : tempFiles[k] = NormalizedChunk(k - 1)
             /\ Len(tempFiles) \in {i, i + 1}
             /\ pc \in {"gac_request", "gac_sleep", "pcm_write"} => Len(tempFiles) = i
             /\ \A k \in (i + 1)..(Len(chunks) - 1) : dir \cap chunkFiles[filename, k] = {}
             /\ catStatus # "idle" /\ fileList # <<>>
                    => fileList = [k \in 1..Len(chunks) |-> NormalizedChunk(k - 1)]
    /\ mode = "script"
          => LET ok == SelectSeq(sectionLog, LAMBDA e : e.success)
             IN  /\ \A j, k \in DOMAIN sectionLog :
                        j < k => sectionLog[j].index < sectionLog[k].index
                 /\ \A k \in DOMAIN sectionLog : sectionLog[k].index <= i
                 /\ pc \in {"gsa_request", "pcm_write"}
                        => \A k \in DOMAIN sectionLog : sectionLog[k].index < i
                 /\ \A k \in DOMAIN script : k > i + 1 => SectionArtifacts(k) \cap dir = {}
                 /\ NarrationResult.files =
                        [k \in DOMAIN ok |->
                            [sectionTitle |-> script[ok[k].index + 1].title,
                             filename |-> sectionPaths[script[ok[k].index + 1],
                                                       ok[k].index]]]

C14_Witness ==
    /\ mode = "text"
    /\ pc = "cat_ffmpeg"
    /\ fileList = <<NormalizedChunk(0), NormalizedChunk(1), NormalizedChunk(2)>>
    /\ Range(fileList) \subseteq dir

\* C15: for every text, splitTextIntoChunks returns at least one chunk and
\* no chunk it returns is the empty string.
C15_AtLeastOneNoneEmpty ==
    unitPc = "done"
        => /\ Len(returned) >= 1
           /\ \A k \in DOMAIN returned : returned[k] # <<>>

\* the sentences of a text: the pieces text[a..b] that begin at the start of
\* the text or after a terminator, end at a terminator or at the end of the
\* text, and hold no terminator before their end
Pieces(t) ==
    { SubSeq(t, a, b) : a \in DOMAIN t, b \in DOMAIN t } \cap
    { piece \in UNION {[1..n -> Range(t)] : n \in 1..Len(t)} :
        \E a \in DOMAIN t :
          LET b == a + Len(piece) - 1
          IN  /\ b <= Len(t)
              /\ SubSeq(t, a, b) = piece
              /\ a = 1 \/ t[a - 1] \in Terminators
              /\ b = Len(t) \/ t[b] \in Terminators
              /\ \A k \in a..(b - 1) : t[k] \notin Terminators }

\* C16: for a text longer than the maximum, a chunk longer than the maximum
\* is one single sentence of the text (trimmed) that by itself exceeds the
\* maximum; every other chunk is at most the maximum long.
C16_OnlyWholeSentenceOversized ==
    (unitPc = "done" /\ Len(unitArgs.text) > unitArgs.maxChunkSize)
        => \A k \in DOMAIN returned :
              Len(returned[k]) > unitArgs.maxChunkSize
                  => \E piece \in Pieces(unitArgs.text) :
                        /\ Len(piece) > unitArgs.maxChunkSize
                        /\ returned[k] = trim(piece)

C16_Witness ==
    /\ unitPc = "done"
    /\ Len(unitArgs.text) > unitArgs.maxChunkSize
    /\ unitArgs.maxChunkSize = 2
    /\ Len(returned) = 2
    /\ Len(returned[1]) = 3
    /\ Len(returned[2]) = 1

\* the chunks cs, in order, make up the text rest once white space between
\* them, before the first and after the last is left out; open tells that
\* the chunk before did not end with a terminator, and then the white space
\* left out before the next chunk holds one
RECURSIVE Reassembles(_, _, _)
Reassembles(rest, cs, open) ==
    IF cs = <<>> THEN \A k \in DOMAIN rest : rest[k] \in WhiteSpace
    ELSE \E skip \in 0..Len(rest) :
           /\ \A k \in 1..skip : rest[k] \in WhiteSpace
           /\ open => \E k \in 1..skip : rest[k] \in Terminators
           /\ LET body == SubSeq(rest, skip + 1, Len(rest))
                  n    == Len(cs[1])
              IN  /\ n <= Len(body)
                  /\ SubSeq(body, 1, n) = cs[1]
                  /\ Reassembles(SubSeq(body, n + 1, Len(body)), Tail(cs),
                                 n = 0 \/ cs[1][n] \notin Terminators)

\* C17: the chunks splitTextIntoChunks returns, put together in order, are
\* the text with white space left out at chunk boundaries only, and every
\* boundary between two chunks is the end of a sentence.
C17_ChunksReassembleText ==
    unitPc = "done" => Reassembles(unitArgs.text, returned, FALSE)

C17_Witness ==
    /\ unitPc = "done"
    /\ unitArgs.maxChunkSize = 2
    /\ unitArgs.text = <<"x", " ", "\n", "x">>
    /\ returned = << <<"x">>, <<"x">> >>

\* C18: a text not longer than the maximum chunk size comes back as exactly
\* one chunk, the text itself with its white space.
C18_ShortTextUnchanged ==
    (unitPc = "done" /\ Len(unitArgs.text) <= unitArgs.maxChunkSize)
        => returned = <<unitArgs.text>>

C18_Witness ==
    /\ unitPc = "done"
    /\ unitArgs.maxChunkSize = 3
    /\ unitArgs.text = <<" ", "x", "\n">>
    /\ returned = << <<" ", "x", "\n">> >>

\* the positions at which a global search finds term in t, in any case and
\* character by character: the leftmost occurrence from start on, then the
\* leftmost after it, not overlapping
RECURSIVE Occurrences(_, _, _)
Occurrences(t, term, start) ==
    LET here == { p \in start..(Len(t) - Len(term) + 1) :
                    \A j \in DOMAIN term : Fold(t[p + j - 1]) = Fold(term[j]) }
    IN  IF here = {} \/ term = <<>> THEN <<>>
        ELSE <<SetMin(here)>> \o Occurrences(t, term, SetMin(here) + Len(term))

\* t from start on with the n characters at each position of at replaced:
\* by reading as it is written, or by what reading stands for as a
\* replacement string
RECURSIVE Substituted(_, _, _, _, _, _)
Substituted(t, at, n, reading, start, written) ==
    IF at = <<>> THEN SubSeq(t, start, Len(t))
    ELSE SubSeq(t, start, at[1] - 1)
         \o (IF written THEN reading ELSE expandReplacement(reading, t, at[1], n))
         \o Substituted(t, Tail(at), n, reading, at[1] + n, written)

\* short occurs, in some case, inside the longer term long
IsSubTerm(short, long) ==
    /\ Len(short) < Len(long)
    /\ \E p \in 1..(Len(long) - Len(short) + 1) :
           \A j \in DOMAIN short : Fold(long[p + j - 1]) = Fold(short[j])

C20_EveryOccurrenceByReading ==
    \A k \in DOMAIN passes :
        passes[k].after =
            Substituted(passes[k].before,
                        Occurrences(passes[k].before, passes[k].original, 1),
                        Len(passes[k].original), passes[k].replacement, 1, TRUE)

\* detectNoise has returned: called on its own, or by denoise in auto mode
Detected ==
    \/ unitArgs.call = "detectNoise" /\ unitPc = "done"
    \/ /\ unitArgs.call = "denoise" /\ unitArgs.level = "auto" /\ unitArgs.exists
       /\ unitPc \in {"decide", "ffmpeg", "done", "threw"}

\* both ffmpeg runs of detectNoise succeeded
ToolSucceeded == unitArgs.tool.statsOk /\ unitArgs.tool.spectrumOk

\* the profile of each dynamic range, given in tenths of a dB
RangeTable(range) ==
    IF range < 100 THEN [type |-> "white_noise", level |-> 70, recommendedLevel |-> "strong"]
    ELSE IF range < 200 THEN [type |-> "room_tone", level |-> 40, recommendedLevel |-> "medium"]
    ELSE IF range < 300 THEN [type |-> "background_hum", level |-> 15, recommendedLevel |-> "light"]
    ELSE [type |-> "mixed", level |-> 0, recommendedLevel |-> "none"]

\* C21: with a measured RMS level of -40 dB or more, the profile detectNoise
\* returns is the row of the table that the dynamic range peak - RMS falls
\* in: below 10 dB 70 / strong / white noise, from 10 to below 20 dB
\* 40 / medium / room tone, from 20 to below 30 dB 15 / light / background
\* hum, 30 dB or more 0 / none; 10, 20 and 30 belong to the upper row.
C21_ProfileByDynamicRange ==
    (/\ Detected /\ ToolSucceeded
     /\ unitArgs.tool.rms.kind = "number" /\ unitArgs.tool.peak.kind = "number"
     /\ unitArgs.tool.rms.tenths >= -400)
    => /\ analysis = RangeTable(unitArgs.tool.peak.tenths - unitArgs.tool.rms.tenths)
       /\ \A other \in ToolRuns :
            (/\ other.statsOk /\ other.spectrumOk
             /\ other.rms.kind = "number" /\ other.peak.kind = "number"
             /\ other.rms.tenths >= -400
             /\ other.peak.tenths - other.rms.tenths
                  = unitArgs.tool.peak.tenths - unitArgs.tool.rms.tenths)
            => detectNoise(other) = analysis

C21_Witness ==
    /\ unitArgs.call = "detectNoise" /\ unitPc = "done" /\ ToolSucceeded
    /\ unitArgs.tool.rms = Number(-400)
    /\ unitArgs.tool.peak = Number(-300)
    /\ analysis = [type |-> "room_tone", level |-> 40, recommendedLevel |-> "medium"]

\* the RMS level astats measured is below -40 dB (digital silence is)
MeasuredQuiet ==
    \/ unitArgs.tool.rms.kind = "-inf"
    \/ unitArgs.tool.rms.kind = "number" /\ unitArgs.tool.rms.tenths < -400

\* C22 as stated: whenever the measured RMS level is below -40 dB, the
\* profile detectNoise returns has severity 50 or more and recommends medium
\* or strong, whatever the dynamic range.
C22_QuietForcesMedium ==
    (Detected /\ ToolSucceeded /\ MeasuredQuiet)
    => /\ analysis.level >= 50
       /\ analysis.recommendedLevel \in {"medium", "strong"}

\* C23 as stated: detectNoise never throws; when the statistics tool fails,
\* or its output holds neither an RMS nor a peak statistic, it returns the
\* default profile (mixed, medium), and denoise in auto mode goes on with it.
C23_FailSoftDefault ==
    (/\ Detected
     /\ \/ ~ToolSucceeded
        \/ unitArgs.tool.rms.kind = "absent" /\ unitArgs.tool.peak.kind = "absent")
    => /\ analysis.type = "mixed"
       /\ analysis.recommendedLevel = "medium"
       /\ unitArgs.call = "denoise" => actualLevel = "medium" /\ noiseType = "mixed"

\* C24 as stated: buildDenoiseFilter returns the empty chain whenever the
\* level is none, for every noise type (breath too) and both values of
\* preserveQuality.
C24_NoneGivesEmptyChain ==
    (unitArgs.call = "buildDenoiseFilter" /\ unitPc = "done" /\ unitArgs.level = "none")
    => filter = <<>>

\* C25 as stated: when the options name breath as the target type, denoise
\* applies the breath chain (gate, 120 Hz high-pass, spectral denoise,
\* silence trimming, low-pass) for every level that is not none, auto
\* included, where only the level comes from detectNoise.
C25_BreathChainApplied ==
    (/\ unitArgs.call = "denoise" /\ unitArgs.targetType = "breath"
     /\ unitPc \in {"ffmpeg", "done", "threw"} /\ unitArgs.exists
     /\ actualLevel # "none")
    => /\ noiseType = "breath"
       /\ Len(filter) >= 5
       /\ SubSeq(filter, 1, 5) = BreathChain

\* C27 as stated: the quiet-signal override never lowers the recommended
\* level below the one the dynamic range selected: a severity of 70 always
\* comes with the level strong.
C27_OverrideNeverLowers ==
    (Detected /\ ToolSucceeded)
    => (analysis.level = 70 => analysis.recommendedLevel = "strong")

\* C26 as stated: the names pcmToMp3, generateFromText and
\* concatenateAudioFiles derive from a destination name by replacing '.mp3'
\* (temporary PCM, raw MP3, normalized chunk, manifest) always differ from
\* the destination itself, also for a destination without '.mp3', so that a
\* resolved run still has its output.
C26_DerivedNamesDiffer ==
    /\ pcmStatus # "idle"
         => /\ tempPcmPathOf(outputPath) # outputPath
            /\ rawMp3PathOf(outputPath) # outputPath
    /\ mode = "text"
         => \A k \in 0..(Len(chunks) - 1) :
              /\ tempFilepathOf(filename, k) # filename
              /\ normalizedPathOf(tempFilepathOf(filename, k))
                   \notin {tempFilepathOf(filename, k), filename}
    /\ catStatus # "idle" => fileListPathOf(filename) # filename
    /\ (mode = "text" /\ outcome = "resolved" /\ Len(chunks) >= 1) => filename \in dir

\* the sections of the script that generate has finished with and did not
\* pass over
ProcessedSections ==
    {k \in 1..(IF pc = "gen_wait" THEN i + 1 ELSE i) : ~skipped[script[k]]}

\* C29 as stated: at every point of the section loop of generate and in its
\* result, successCount + failureCount is the number of sections processed
\* so far that were not skipped, files has successCount entries, and in the
\* result successCount + failureCount equals metrics.totalSections.
C29_CountsAddUp ==
    mode = "script"
        => /\ successCount + failureCount = Cardinality(ProcessedSections)
           /\ Len(results) = successCount
           /\ outcome = "resolved"
                => /\ Len(NarrationResult.files) = NarrationResult.successCount
                   /\ NarrationResult.successCount + NarrationResult.failureCount
                        = NarrationResult.totalSections

\* t from start on, cut at the positions of at into the pieces between the
\* occurrences, which are still text of the input, and what is inserted for
\* each occurrence of n characters
RECURSIVE CutAt(_, _, _, _, _)
CutAt(t, at, n, reading, start) ==
    IF at = <<>>
    THEN IF start > Len(t) THEN <<>>
         ELSE << [text |-> SubSeq(t, start, Len(t)), original |-> TRUE] >>
    ELSE (IF at[1] > start
          THEN << [text |-> SubSeq(t, start, at[1] - 1), original |-> TRUE] >>
          ELSE <<>>)
         \o << [text |-> expandReplacement(reading, t, at[1], n), original |-> FALSE] >>
         \o CutAt(t, Tail(at), n, reading, at[1] + n)

\* one term applied to the pieces that are still text of the input
RECURSIVE SubstituteInInput(_, _, _)
SubstituteInInput(pieces, term, reading) ==
    IF pieces = <<>> THEN <<>>
    ELSE (IF pieces[1].original
          THEN CutAt(pieces[1].text, Occurrences(pieces[1].text, term, 1), Len(term), reading, 1)
          ELSE << pieces[1] >>)
         \o SubstituteInInput(Tail(pieces), term, reading)

\* the terms of applied, in that order, each on what is left of the input
RECURSIVE Simultaneous(_, _)
Simultaneous(pieces, applied) ==
    IF applied = <<>> THEN pieces
    ELSE Simultaneous(SubstituteInInput(pieces, applied[1].original, applied[1].replacement),
                      Tail(applied))

RECURSIVE Joined(_)
Joined(pieces) == IF pieces = <<>> THEN <<>> ELSE pieces[1].text \o Joined(Tail(pieces))

\* C28 as stated: applyDictionary is one simultaneous longest-first
\* substitution on the input: what it returns is the input with the terms
\* replaced where they occur in the input, and text inserted as a reading
\* is not rewritten by another term, inside it or across its boundary.
C28_SimultaneousSubstitution ==
    unitPc = "done"
        => returned = Joined(Simultaneous(<< [text |-> unitArgs.text, original |-> TRUE] >>,
                                          passes))

\* the change a request asks for, made to replacements
Changed(replacements, request) ==
    IF request.kind = "add"
    THEN {e \in replacements : e[1] # trim(request.word)}
         \cup {<<trim(request.word), trim(request.reading)>>}
    ELSE {e \in replacements : e[1] # request.word}

\* C30 as stated: when two dictionary-modifying requests (add, delete) are
\* handled at the same time and both answer success, the stored dictionary
\* afterwards holds both changes, made in one order or the other: no
\* successful add or delete is lost.
C30_BothChangesStored ==
    (\A q \in Requests : reqPc[q] = "done" /\ reqAnswer[q] = "success")
        => \E p, q \in Requests :
             /\ p # q
             /\ dictFile = Changed(Changed(unitArgs.initial, unitArgs.requests[p]),
                                   unitArgs.requests[q])

=============================================================================
